---- MODULE Spec2Model ----
(***************************************************************************)
(* A model of four pieces of genji:                                        *)
(*   - the order-preserving codec (package encoding): AppendUint64,        *)
(*     AppendInt64, AppendFloat64 and their decoders;                      *)
(*   - the SELECT planner, SelectStmt.ToStream (package query);            *)
(*   - the INSERT ... VALUES parser (package parser);                      *)
(*   - dbutil.ExecSQL, the statement callback that writes a Result.        *)
(*                                                                         *)
(* 64-bit words are kept at full width.  A uint64 is a sequence of four    *)
(* 16-bit limbs, most significant first; an int64 is the same with a       *)
(* signed first limb (-2^15 .. 2^15-1), so that its value is               *)
(* hi*2^48 + w2*2^32 + w1*2^16 + w0; a float64 is its IEEE-754 fields      *)
(* [sign, exp, mant] with mant a 4-bit limb followed by three 16-bit ones. *)
(***************************************************************************)
EXTENDS Integers, Sequences, FiniteSets, TLC

VARIABLES
    ckind, ca, cb, cencA, cencB, cdec, cpc,      \* codec
    stmt, sres,                                  \* SELECT planner
    iin, ires,                                   \* INSERT parser
    ctxDone, stmts, epc, ndocs, pos, written, closeCount, iterErr, cancelAt, ret, rets  \* ExecSQL

codecVars  == <<ckind, ca, cb, cencA, cencB, cdec, cpc>>
selectVars == <<stmt, sres>>
insertVars == <<iin, ires>>
execVars   == <<ctxDone, stmts, epc, ndocs, pos, written, closeCount, iterErr, cancelAt,
                ret, rets>>
vars       == <<codecVars, selectVars, insertVars, execVars>>

None == "none"

(***************************************************************************)
(* Idle values: a specification about one component keeps the others here. *)
(***************************************************************************)
CodecIdle ==
    /\ ckind = None /\ ca = None /\ cb = None
    /\ cencA = <<>> /\ cencB = <<>> /\ cdec = None /\ cpc = None
SelectIdle == stmt = None /\ sres = None
InsertIdle == iin = None /\ ires = None
ExecIdle ==
    /\ ctxDone = FALSE /\ stmts = 0 /\ epc = None /\ ndocs = 0 /\ pos = 0
    /\ written = <<>> /\ closeCount = 0 /\ iterErr = None /\ cancelAt = 0
    /\ ret = None /\ rets = <<>>

(***************************************************************************)
(*                               THE CODEC                                 *)
(***************************************************************************)
Limb    == 256 * 256            \* 2^16
HalfLimb == 128 * 256           \* 2^15: the top bit of a limb
MaxLimb == Limb - 1

\* uint64 arithmetic, modulo 2^64 (Go's unsigned wrap-around).
AddU64(a, b) ==
    LET s4 == a[4] + b[4]
        s3 == a[3] + b[3] + (s4 \div Limb)
        s2 == a[2] + b[2] + (s3 \div Limb)
        s1 == a[1] + b[1] + (s2 \div Limb)
    IN  <<s1 % Limb, s2 % Limb, s3 % Limb, s4 % Limb>>

SubU64(a, b) ==
    LET d4 == a[4] - b[4]
        d3 == a[3] - b[3] - (IF d4 < 0 THEN 1 ELSE 0)
        d2 == a[2] - b[2] - (IF d3 < 0 THEN 1 ELSE 0)
        d1 == a[1] - b[1] - (IF d2 < 0 THEN 1 ELSE 0)
    IN  <<d1 % Limb, d2 % Limb, d3 % Limb, d4 % Limb>>

\* fb ^= 1 << 63
XorSignBit(u) ==
    <<IF u[1] >= HalfLimb THEN u[1] - HalfLimb ELSE u[1] + HalfLimb, u[2], u[3], u[4]>>

\* fb ^= 1<<64 - 1
XorAllBits(u) == <<MaxLimb - u[1], MaxLimb - u[2], MaxLimb - u[3], MaxLimb - u[4]>>

\* x & (1 << 63) != 0
HighBitSet(u) == u[1] >= HalfLimb

\* math.MaxInt64 and the constant math.MaxInt64 + 1, as uint64.
MaxInt64U == <<HalfLimb - 1, MaxLimb, MaxLimb, MaxLimb>>
OneU      == <<0, 0, 0, 1>>
MaxInt64Plus1U == <<HalfLimb, 0, 0, 0>>

\* uint64(x) and int64(u): two's-complement reinterpretation.
Uint64OfInt64(x) == <<x[1] % Limb, x[2], x[3], x[4]>>
Int64OfUint64(u) == <<IF u[1] >= HalfLimb THEN u[1] - Limb ELSE u[1], u[2], u[3], u[4]>>

\* binary.BigEndian.PutUint64 / Uint64: eight bytes, most significant first.
PutUint64(u) ==
    <<u[1] \div 256, u[1] % 256, u[2] \div 256, u[2] % 256,
      u[3] \div 256, u[3] % 256, u[4] \div 256, u[4] % 256>>

BigEndianUint64(buf) ==
    <<buf[1] * 256 + buf[2], buf[3] * 256 + buf[4],
      buf[5] * 256 + buf[6], buf[7] * 256 + buf[8]>>

AppendUint64(buf, x) == buf \o PutUint64(x)

ZeroU == <<0, 0, 0, 0>>

DecodeUint64(buf) ==
    IF Len(buf) < 8
    THEN [val |-> ZeroU, err |-> "cannot decode buffer to uint64"]
    ELSE [val |-> BigEndianUint64(buf), err |-> None]

AppendInt64NoBias(buf, x) == buf \o PutUint64(Uint64OfInt64(x))

AppendInt64(buf, x) ==
    buf \o PutUint64(AddU64(AddU64(Uint64OfInt64(x), MaxInt64U), OneU))

DecodeInt64(buf) ==
    LET r == DecodeUint64(buf)
    IN  [val |-> Int64OfUint64(SubU64(r.val, MaxInt64Plus1U)), err |-> r.err]

\* math.Float64bits / math.Float64frombits.
Float64bits(x) ==
    <<x.sign * HalfLimb + x.exp * 16 + x.mant[1], x.mant[2], x.mant[3], x.mant[4]>>

Float64frombits(u) ==
    [sign |-> u[1] \div HalfLimb,
     exp  |-> (u[1] % HalfLimb) \div 16,
     mant |-> <<u[1] % 16, u[2], u[3], u[4]>>]

ExpAllOnes == 2048 - 1
ZeroMant == <<0, 0, 0, 0>>
IsNaN(x)  == x.exp = ExpAllOnes /\ x.mant # ZeroMant
IsZero(x) == x.exp = 0 /\ x.mant = ZeroMant

\* The Go comparison x >= 0 on float64: false for NaN, true for -0.
FloatGeZero(x) == ~IsNaN(x) /\ (x.sign = 0 \/ IsZero(x))

AppendFloat64(buf, x) ==
    LET fb == Float64bits(x)
    IN  AppendUint64(buf, IF FloatGeZero(x) THEN XorSignBit(fb) ELSE XorAllBits(fb))

DecodeFloat64(buf) ==
    IF Len(buf) < 8
    THEN [val |-> Float64frombits(ZeroU), err |-> "cannot decode buffer to float64"]
    ELSE LET x == BigEndianUint64(buf)
         IN  [val |-> Float64frombits(IF HighBitSet(x) THEN XorSignBit(x) ELSE XorAllBits(x)),
              err |-> None]

(***************************************************************************)
(* Sampled inputs: the boundary values of each type.                       *)
(***************************************************************************)
Int64Tails ==
    { <<0, 0, 0>>, <<0, 0, 1>>, <<MaxLimb, MaxLimb, MaxLimb>>,
      <<MaxLimb, MaxLimb, MaxLimb - 1>>, <<0, HalfLimb, 0>> }
Int64His == { -HalfLimb, 1 - HalfLimb, -1, 0, 1, HalfLimb - 1 }
Int64Samples == { <<h, t[1], t[2], t[3]>> : h \in Int64His, t \in Int64Tails }

AllOnesMant == <<15, MaxLimb, MaxLimb, MaxLimb>>
FloatMagnitudes ==
    { [exp |-> 0, mant |-> ZeroMant],                  \* 0
      [exp |-> 0, mant |-> <<0, 0, 0, 1>>],            \* smallest subnormal
      [exp |-> 0, mant |-> AllOnesMant],               \* largest subnormal
      [exp |-> 1, mant |-> ZeroMant],                  \* smallest normal
      [exp |-> 1023, mant |-> ZeroMant],               \* 1
      [exp |-> 1023, mant |-> <<8, 0, 0, 0>>],         \* 1.5
      [exp |-> 1024, mant |-> ZeroMant],               \* 2
      [exp |-> ExpAllOnes - 1, mant |-> AllOnesMant],  \* MaxFloat64
      [exp |-> ExpAllOnes, mant |-> ZeroMant],         \* infinity
      [exp |-> ExpAllOnes, mant |-> <<8, 0, 0, 0>>],   \* NaN
      [exp |-> ExpAllOnes, mant |-> AllOnesMant] }     \* NaN, all bits set
FloatSamples ==
    { [sign |-> s, exp |-> m.exp, mant |-> m.mant] : s \in {0, 1}, m \in FloatMagnitudes }

CodecInit ==
    /\ ckind \in {"int64", "float64"}
    /\ ca \in (IF ckind = "int64" THEN Int64Samples ELSE FloatSamples)
    /\ cb \in (IF ckind = "int64" THEN Int64Samples ELSE FloatSamples)
    /\ cencA = <<>> /\ cencB = <<>> /\ cdec = None /\ cpc = "start"

EncodeInt64 ==
    /\ ckind = "int64" /\ cpc = "start"
    /\ cencA' = AppendInt64(<<>>, ca)
    /\ cencB' = AppendInt64(<<>>, cb)
    /\ cpc' = "encoded"
    /\ UNCHANGED <<ckind, ca, cb, cdec, selectVars, insertVars, execVars>>

DecodeInt64Step ==
    /\ ckind = "int64" /\ cpc = "encoded"
    /\ cdec' = DecodeInt64(cencA)
    /\ cpc' = "decoded"
    /\ UNCHANGED <<ckind, ca, cb, cencA, cencB, selectVars, insertVars, execVars>>

EncodeFloat64 ==
    /\ ckind = "float64" /\ cpc = "start"
    /\ cencA' = AppendFloat64(<<>>, ca)
    /\ cencB' = AppendFloat64(<<>>, cb)
    /\ cpc' = "encoded"
    /\ UNCHANGED <<ckind, ca, cb, cdec, selectVars, insertVars, execVars>>

DecodeFloat64Step ==
    /\ ckind = "float64" /\ cpc = "encoded"
    /\ cdec' = DecodeFloat64(cencA)
    /\ cpc' = "decoded"
    /\ UNCHANGED <<ckind, ca, cb, cencA, cencB, selectVars, insertVars, execVars>>

CodecNext == EncodeInt64 \/ DecodeInt64Step \/ EncodeFloat64 \/ DecodeFloat64Step

InitCodec == CodecInit /\ SelectIdle /\ InsertIdle /\ ExecIdle

SpecCodec == InitCodec /\ [][CodecNext]_vars

(***************************************************************************)
(* The orders the codec claims speak of.                                   *)
(***************************************************************************)
RECURSIVE SeqLess(_, _)
\* Lexicographic order of two sequences of integers (bytes.Compare(a, b) < 0).
SeqLess(a, b) ==
    IF b = <<>> THEN FALSE
    ELSE IF a = <<>> THEN TRUE
    ELSE IF Head(a) # Head(b) THEN Head(a) < Head(b)
    ELSE SeqLess(Tail(a), Tail(b))

\* a < b on int64: the numeric order of hi*2^48 + w2*2^32 + w1*2^16 + w0.
Int64Less(a, b) == SeqLess(a, b)

\* The magnitude of a float as a sequence ordered like |x|.
Magnitude(x) == <<x.exp>> \o x.mant

\* a < b on float64 (IEEE-754): false with a NaN, -0 and +0 are equal.
FloatLess(a, b) ==
    /\ ~IsNaN(a) /\ ~IsNaN(b)
    /\ ~(IsZero(a) /\ IsZero(b))
    /\ IF a.sign # b.sign THEN a.sign = 1
       ELSE IF a.sign = 0 THEN SeqLess(Magnitude(a), Magnitude(b))
       ELSE SeqLess(Magnitude(b), Magnitude(a))

\* x + 2^63, which lies in 0 .. 2^64-1 for every int64 x, as eight big-endian bytes.
BiasedBytes(x) ==
    LET h == x[1] + HalfLimb
    IN  <<h \div 256, h % 256, x[2] \div 256, x[2] % 256,
          x[3] \div 256, x[3] % 256, x[4] \div 256, x[4] % 256>>

\* C4: for int64 a and b, a < b iff AppendInt64([], a) is lexicographically
\* smaller than AppendInt64([], b); the encoding is the big-endian 8-byte form of
\* a + 2^63 (mod 2^64); and DecodeInt64 of the encoding returns a with no error.
C4_Int64OrderAndRoundTrip ==
    (ckind = "int64" /\ cpc \in {"encoded", "decoded"}) =>
        /\ Int64Less(ca, cb) <=> SeqLess(cencA, cencB)
        /\ cencA = BiasedBytes(ca) /\ cencB = BiasedBytes(cb)
        /\ cpc = "decoded" => cdec = [val |-> ca, err |-> None]

C4_Witness ==
    /\ ckind = "int64" /\ cpc = "decoded"
    /\ ca = <<-1, MaxLimb, MaxLimb, MaxLimb>> /\ cb = <<0, 0, 0, 0>>
    /\ SeqLess(cencA, cencB)
    /\ cdec.val = ca

\* C2: for every non-NaN float64 x, DecodeFloat64(AppendFloat64([], x)) returns x
\* with no error; a value whose sign bit is 1 (-0 included) is encoded by flipping
\* all 64 bits of its pattern, a value whose sign bit is 0 by flipping the sign bit.
C2_FloatRoundTrip ==
    (ckind = "float64" /\ ~IsNaN(ca) /\ cpc \in {"encoded", "decoded"}) =>
        /\ cencA = PutUint64(IF ca.sign = 1 THEN XorAllBits(Float64bits(ca))
                                            ELSE XorSignBit(Float64bits(ca)))
        /\ cpc = "decoded" => cdec = [val |-> ca, err |-> None]

\* C3: for non-NaN float64 a and b, a < b iff AppendFloat64([], a) is
\* lexicographically smaller than AppendFloat64([], b).  Stated here is the half
\* the package documentation promises (vA < vB gives eA < eB): whenever a < b, the
\* encoding of a is lexicographically smaller than the encoding of b.
C3_FloatOrderPreserved ==
    (ckind = "float64" /\ ~IsNaN(ca) /\ ~IsNaN(cb) /\ cpc \in {"encoded", "decoded"}) =>
        (FloatLess(ca, cb) => SeqLess(cencA, cencB))

(***************************************************************************)
(*                      THE SELECT PLANNER (ToStream)                      *)
(***************************************************************************)
\* Expressions (package expr), as tagged records.
Nil           == [kind |-> "nil"]
Wildcard      == [kind |-> "wildcard"]
Param         == [kind |-> "param"]
Path(p)       == [kind |-> "path", name |-> p]
\* A literal: its type, its integral value (a double's truncation) and whether
\* that value fits an int64.
Lit(t, v, fits) == [kind |-> "literal", type |-> t, v |-> v, fits |-> fits]
Binary(l, r)  == [kind |-> "binary", l |-> l, r |-> r]
Agg(n, arg)   == [kind |-> "aggregator", name |-> n, arg |-> arg]
Named(e)      == [kind |-> "named", expr |-> e]

\* e.(expr.AggregatorBuilder)
IsAggregator(e) == e.kind = "aggregator"

\* expr.Equal: structural equality of two expression trees.
Equal(a, b) == a = b

\* The callback ToStream hands to expr.Walk: FALSE (stop, and set err) on a path
\* or a wildcard, TRUE (descend) on anything else.
NoTableVisitorPathOnly(e) == e.kind # "path"
NoTableVisitor(e) == e.kind \notin {"path", "wildcard"}

RECURSIVE Walk(_)
\* expr.Walk(e, NoTableVisitor): pre-order; FALSE iff the callback stopped the walk.
Walk(e) ==
    IF e.kind = "nil" THEN TRUE
    ELSE IF ~NoTableVisitor(e) THEN FALSE
    ELSE CASE e.kind = "binary"     -> Walk(e.l) /\ Walk(e.r)
           [] e.kind = "named"      -> Walk(e.expr)
           [] e.kind = "aggregator" -> Walk(e.arg)
           [] OTHER                 -> TRUE

\* Expr.Eval against an empty environment: a literal is its value, a parameter
\* has nothing bound to it.
Eval(e) ==
    IF e.kind = "literal"
    THEN [err |-> None, type |-> e.type, v |-> e.v, fits |-> e.fits]
    ELSE [err |-> "eval", type |-> "null", v |-> 0, fits |-> TRUE]

\* Type.IsNumber
IsNumber(t) == t \in {"integer", "double"}

\* Value.CastAsInteger of a number: a double is truncated, and one beyond the
\* int64 range cannot be cast.
CastAsInteger(val) ==
    IF ~val.fits
    THEN [err |-> "cast", v |-> 0]
    ELSE [err |-> None, v |-> val.v]

\* Stream operators (package stream).
Op(name, arg) == [op |-> name, arg |-> arg]
NoArg == <<>>

\* Errors ToStream returns.
NoErr == [kind |-> "none", arg |-> NoArg]
Err(kind, arg) == [kind |-> kind, arg |-> arg]

\* The planner's running state: s is the sequence of operators handed to
\* stream.New and Stream.Pipe so far (a nil stream is the empty sequence), err
\* the error ToStream has returned with, if any.
Plan(s, err) == [s |-> s, err |-> err]

HeadStageAlwaysScan(st) == Plan(<<Op("SeqScan", st.TableName)>>, NoErr)

\* if stmt.TableName != "" { s = stream.New(stream.SeqScan(stmt.TableName)) }
HeadStage(st) ==
    IF st.TableName # "" THEN Plan(<<Op("SeqScan", st.TableName)>>, NoErr)
    ELSE Plan(<<>>, NoErr)

\* if stmt.WhereExpr != nil { s = s.Pipe(stream.Filter(stmt.WhereExpr)) }
FilterStage(st, p) ==
    IF st.WhereExpr # Nil THEN Plan(Append(p.s, Op("Filter", st.WhereExpr)), NoErr)
    ELSE p

RECURSIVE GroupByLoopNoEqual(_, _, _)
GroupByLoopNoEqual(projs, g, aggs) ==
    IF projs = <<>> THEN [invalid |-> Nil, aggs |-> aggs]
    ELSE LET pe == Head(projs)
         IN  IF pe.kind # "named" THEN [invalid |-> pe, aggs |-> aggs]
             ELSE IF IsAggregator(pe.expr)
                  THEN GroupByLoopNoEqual(Tail(projs), g, Append(aggs, pe.expr))
             ELSE [invalid |-> pe, aggs |-> aggs]

RECURSIVE GroupByLoop(_, _, _)
\* The loop over the projections under GROUP BY: the first projection that is
\* not a NamedExpr, or whose inner expression is neither an aggregator nor equal
\* to the GROUP BY expression, ends it as invalidProjectedField.
GroupByLoop(projs, g, aggs) ==
    IF projs = <<>> THEN [invalid |-> Nil, aggs |-> aggs]
    ELSE LET pe == Head(projs)
         IN  IF pe.kind # "named" THEN [invalid |-> pe, aggs |-> aggs]
             ELSE IF IsAggregator(pe.expr)
                  THEN GroupByLoop(Tail(projs), g, Append(aggs, pe.expr))
             ELSE IF Equal(pe.expr, g)
                  THEN GroupByLoop(Tail(projs), g, aggs)
             ELSE [invalid |-> pe, aggs |-> aggs]

RECURSIVE Aggregators(_)
\* The loop without GROUP BY: the inner expressions of the NamedExpr projections
\* that are aggregators, in projection order.
Aggregators(projs) ==
    IF projs = <<>> THEN <<>>
    ELSE LET pe == Head(projs)
         IN  IF pe.kind = "named" /\ IsAggregator(pe.expr)
             THEN <<pe.expr>> \o Aggregators(Tail(projs))
             ELSE Aggregators(Tail(projs))

\* The GROUP BY / aggregation section.
AggregateStage(st, p) ==
    IF st.GroupByExpr # Nil
    THEN LET r == GroupByLoop(st.ProjectionExprs, st.GroupByExpr, <<>>)
         IN  IF r.invalid # Nil
             THEN Plan(<<>>, Err("groupby", r.invalid))
             ELSE Plan(p.s \o <<Op("GroupBy", st.GroupByExpr), Op("HashAggregate", r.aggs)>>,
                       NoErr)
    ELSE LET aggs == Aggregators(st.ProjectionExprs)
         IN  IF Len(aggs) > 0 THEN Plan(Append(p.s, Op("HashAggregate", aggs)), NoErr)
             ELSE p

\* If there is no FROM clause ensure there is no wildcard or path.
NoTableCheck(st, p) ==
    IF p.err # NoErr THEN p
    ELSE IF st.TableName = "" /\ \E i \in 1..Len(st.ProjectionExprs) : ~Walk(st.ProjectionExprs[i])
    THEN Plan(<<>>, Err("no tables specified", NoArg))
    ELSE p

\* s = s.Pipe(stream.Project(stmt.ProjectionExprs...))
ProjectStage(st, p) ==
    IF p.err # NoErr THEN p
    ELSE Plan(Append(p.s, Op("Project", st.ProjectionExprs)), NoErr)

\* if stmt.Distinct { s = s.Pipe(stream.Distinct()) }
DistinctStage(st, p) ==
    IF p.err # NoErr THEN p
    ELSE IF st.Distinct THEN Plan(Append(p.s, Op("Distinct", NoArg)), NoErr)
    ELSE p

SortStageNeverReverse(st, p) ==
    IF p.err # NoErr THEN p
    ELSE IF st.OrderBy # Nil THEN Plan(Append(p.s, Op("Sort", st.OrderBy)), NoErr)
    ELSE p

\* ORDER BY: SortReverse when the direction is DESC, Sort otherwise.
SortStage(st, p) ==
    IF p.err # NoErr THEN p
    ELSE IF st.OrderBy # Nil
    THEN IF st.OrderByDirection = "DESC"
         THEN Plan(Append(p.s, Op("SortReverse", st.OrderBy)), NoErr)
         ELSE Plan(Append(p.s, Op("Sort", st.OrderBy)), NoErr)
    ELSE p

\* The shared shape of the OFFSET and LIMIT sections: evaluate, check the type,
\* cast, pipe.
NumericStageNoTypeCheck(e, what, opname, p) ==
    IF p.err # NoErr \/ e = Nil THEN p
    ELSE LET v == Eval(e)
         IN  IF v.err # None THEN Plan(<<>>, Err("eval", what))
             ELSE LET c == CastAsInteger(v)
                  IN  IF c.err # None THEN Plan(<<>>, Err("cast", what))
                      ELSE Plan(Append(p.s, Op(opname, c.v)), NoErr)

NumericStage(e, what, opname, p) ==
    IF p.err # NoErr \/ e = Nil THEN p
    ELSE LET v == Eval(e)
         IN  IF v.err # None THEN Plan(<<>>, Err("eval", what))
             ELSE IF ~IsNumber(v.type)
                  THEN Plan(<<>>, Err(what, v.type))
             ELSE LET c == CastAsInteger(v)
                  IN  IF c.err # None THEN Plan(<<>>, Err("cast", what))
                      ELSE Plan(Append(p.s, Op(opname, c.v)), NoErr)

OffsetStage(st, p) == NumericStage(st.OffsetExpr, "offset", "Skip", p)
LimitStage(st, p)  == NumericStage(st.LimitExpr, "limit", "Take", p)

\* SelectStmt.ToStream: [s, err], s the operators of the returned stream in pipe
\* order (empty when an error is returned).
ToStream(st) ==
    LET p1 == FilterStage(st, HeadStage(st))
        p2 == AggregateStage(st, p1)
        p3 == NoTableCheck(st, p2)
        p4 == ProjectStage(st, p3)
        p5 == DistinctStage(st, p4)
        p6 == SortStage(st, p5)
        p7 == OffsetStage(st, p6)
    IN  LimitStage(st, p7)

(***************************************************************************)
(* The statements planned: every combination of the clauses over a small   *)
(* stock of expressions, with up to MaxProj projections.                   *)
(***************************************************************************)
MaxProj == 2

PathA   == Path("a")
One     == Lit("integer", 1, TRUE)
SumOne  == Agg("SUM", One)
OnePlusA == Binary(One, PathA)

\* What the parser produces for a projection: a wildcard or a NamedExpr.
Projections ==
    { Wildcard, Named(PathA), Named(One), Named(SumOne), Named(OnePlusA),
      Named(Binary(SumOne, Param)) }

GroupByExprs == { Nil, PathA, OnePlusA }

\* OFFSET / LIMIT expressions: absent, an integer, a text, an unbound parameter,
\* a double beyond the int64 range.
NumericExprs ==
    { Nil, Lit("integer", 3, TRUE), Lit("text", 0, TRUE), Param, Lit("double", 0, FALSE) }

ProjectionLists == UNION { [1..n -> Projections] : n \in 1..MaxProj }

Statements ==
    [ TableName : {"", "t"}, Distinct : BOOLEAN, WhereExpr : {Nil, One},
      GroupByExpr : GroupByExprs, OrderBy : {Nil, PathA},
      OrderByDirection : {"ASC", "DESC"},
      OffsetExpr : NumericExprs, LimitExpr : NumericExprs,
      ProjectionExprs : ProjectionLists ]

Pending == [done |-> FALSE, s |-> <<>>, err |-> NoErr]

SelectInit ==
    /\ stmt \in { st \in Statements : st.OrderBy = Nil => st.OrderByDirection = "ASC" }
    /\ sres = Pending

RunToStream ==
    /\ ~sres.done
    /\ sres' = [done |-> TRUE, s |-> ToStream(stmt).s, err |-> ToStream(stmt).err]
    /\ UNCHANGED <<stmt, codecVars, insertVars, execVars>>

SelectNext == RunToStream

InitSelect == SelectInit /\ CodecIdle /\ InsertIdle /\ ExecIdle

SpecSelect == InitSelect /\ [][SelectNext]_vars

(***************************************************************************)
(* What the planner claims speak of, stated without the planner.           *)
(***************************************************************************)
StageNames(s) == [i \in 1..Len(s) |-> s[i].op]
Opt(present, x) == IF present THEN <<x>> ELSE <<>>
HasOp(s, name) == \E i \in 1..Len(s) : s[i].op = name
OpArgs(s, name) == { s[i].arg : i \in { k \in 1..Len(s) : s[k].op = name } }

\* A projection the parser names whose inner expression is an aggregator.
IsAggregatorProjection(pe) == pe.kind = "named" /\ pe.expr.kind = "aggregator"

\* A projection GROUP BY g accepts.
GroupByAccepts(pe, g) == pe.kind = "named" /\ (pe.expr.kind = "aggregator" \/ pe.expr = g)

GroupByOffenders(st) ==
    { i \in 1..Len(st.ProjectionExprs) : ~GroupByAccepts(st.ProjectionExprs[i], st.GroupByExpr) }

GroupByInvalid(st) == st.GroupByExpr # Nil /\ GroupByOffenders(st) # {}

Min(S) == CHOOSE x \in S : \A y \in S : x <= y

AggregatorProjections(projs) ==
    LET f == SelectSeq(projs, IsAggregatorProjection)
    IN  [i \in 1..Len(f) |-> f[i].expr]

RECURSIVE ContainsPathOrWildcard(_)
ContainsPathOrWildcard(e) ==
    CASE e.kind \in {"path", "wildcard"} -> TRUE
      [] e.kind = "binary"     -> ContainsPathOrWildcard(e.l) \/ ContainsPathOrWildcard(e.r)
      [] e.kind = "named"      -> ContainsPathOrWildcard(e.expr)
      [] e.kind = "aggregator" -> ContainsPathOrWildcard(e.arg)
      [] OTHER                 -> FALSE

NoTableOffence(st) ==
    st.TableName = "" /\ \E i \in 1..Len(st.ProjectionExprs) :
                            ContainsPathOrWildcard(st.ProjectionExprs[i])

\* What becomes of an OFFSET or LIMIT expression.
NumericOutcome(e) ==
    IF e = Nil THEN "absent"
    ELSE IF Eval(e).err # None THEN "eval error"
    ELSE IF ~IsNumber(Eval(e).type) THEN "not a number"
    ELSE IF CastAsInteger(Eval(e)).err # None THEN "cast error"
    ELSE "ok"

Succeeded == sres.done /\ sres.err = NoErr

ExpectedStages(st) ==
    <<"SeqScan">>
    \o Opt(st.WhereExpr # Nil, "Filter")
    \o Opt(st.GroupByExpr # Nil, "GroupBy")
    \o Opt(st.GroupByExpr # Nil
           \/ \E i \in 1..Len(st.ProjectionExprs) : IsAggregatorProjection(st.ProjectionExprs[i]),
           "HashAggregate")
    \o <<"Project">>
    \o Opt(st.Distinct, "Distinct")
    \o Opt(st.OrderBy # Nil, IF st.OrderByDirection = "DESC" THEN "SortReverse" ELSE "Sort")
    \o Opt(st.OffsetExpr # Nil, "Skip")
    \o Opt(st.LimitExpr # Nil, "Take")

\* C1: for a SelectStmt with a table name for which ToStream succeeds, the stages
\* piped are exactly the subsequence of [SeqScan, Filter, GroupBy, HashAggregate,
\* Project, Distinct, Sort or SortReverse, Skip, Take] the clauses select, in that
\* order: Project always, GroupBy iff GROUP BY, HashAggregate iff GROUP BY or a
\* projection that is an aggregator, SortReverse iff DESC, Skip before Take.
C1_StageOrder ==
    (Succeeded /\ stmt.TableName # "") => StageNames(sres.s) = ExpectedStages(stmt)

C1_Witness ==
    /\ Succeeded /\ stmt.TableName # ""
    /\ StageNames(sres.s) = <<"SeqScan", "Filter", "GroupBy", "HashAggregate", "Project",
                              "Distinct", "SortReverse", "Skip", "Take">>

\* C5: with GROUP BY, ToStream succeeds only if every projection is a named
\* expression whose inner expression is an aggregator or equal to the GROUP BY
\* expression; otherwise it returns no stream and the error naming the first
\* offending projection; on success HashAggregate receives exactly the aggregator
\* projections, in projection order.
C5_GroupByValidation ==
    (sres.done /\ stmt.GroupByExpr # Nil) =>
        /\ sres.err = NoErr => GroupByOffenders(stmt) = {}
        /\ GroupByOffenders(stmt) # {} =>
              /\ sres.s = <<>>
              /\ sres.err = Err("groupby", stmt.ProjectionExprs[Min(GroupByOffenders(stmt))])
        /\ sres.err = NoErr =>
              OpArgs(sres.s, "HashAggregate") = {AggregatorProjections(stmt.ProjectionExprs)}

C5_Witness ==
    /\ sres.done /\ stmt.GroupByExpr = PathA
    /\ stmt.ProjectionExprs = <<Named(SumOne), Named(One)>>
    /\ sres.s = <<>> /\ sres.err = Err("groupby", Named(One))

\* C6, as claimed: for a SelectStmt without a table name the stream ToStream
\* produces has a synthetic single-document emitter as its head, so that its first
\* stage is not Filter, GroupBy, HashAggregate or Project.
C6_SyntheticHead ==
    (Succeeded /\ stmt.TableName = "") =>
        /\ Len(sres.s) > 0
        /\ sres.s[1].op \notin {"Filter", "GroupBy", "HashAggregate", "Project"}

\* C6, amended: for a SelectStmt without a table name ToStream pipes no head
\* stage at all: the stream holds no SeqScan and only the stages of the clauses,
\* so its first stage is the first of Filter, GroupBy, HashAggregate and Project
\* that the clauses select (Project when there is no WHERE, GROUP BY or aggregator).
C6_NoHeadStage ==
    (Succeeded /\ stmt.TableName = "") =>
        /\ ~HasOp(sres.s, "SeqScan")
        /\ <<"SeqScan">> \o StageNames(sres.s) = ExpectedStages(stmt)
        /\ sres.s[1].op \in {"Filter", "GroupBy", "HashAggregate", "Project"}

C6_Witness ==
    /\ Succeeded /\ stmt.TableName = ""
    /\ stmt.ProjectionExprs = <<Named(One)>>
    /\ stmt.WhereExpr = Nil
    /\ sres.s[1].op = "Project"

\* C8, as claimed: whatever else the statement holds, an OFFSET or LIMIT
\* expression that is present is evaluated, and one whose value is not a number
\* makes ToStream return no stream and the offset (respectively limit) error, the
\* OFFSET error first (a LIMIT error only when OFFSET is absent or a valid number).
C8_NumericErrors ==
    sres.done =>
        LET o == NumericOutcome(stmt.OffsetExpr)
            l == NumericOutcome(stmt.LimitExpr)
        IN  /\ o = "not a number" =>
                  sres.s = <<>> /\ sres.err = Err("offset", Eval(stmt.OffsetExpr).type)
            /\ (l = "not a number" /\ o \in {"absent", "ok"}) =>
                  sres.s = <<>> /\ sres.err = Err("limit", Eval(stmt.LimitExpr).type)

\* C8, amended: provided ToStream has not failed before it reaches the expression
\* (GROUP BY validation, "no tables specified", or a failed evaluation or cast of
\* OFFSET before LIMIT), an OFFSET or LIMIT expression whose value is not a number
\* makes ToStream return no stream and the offset (respectively limit) error, the
\* OFFSET error first; and when ToStream succeeds a present OFFSET or LIMIT is the
\* argument, cast to an integer, of the one Skip or Take, an absent one adds none.
C8_NumericErrorsWhenReached ==
    (sres.done /\ ~GroupByInvalid(stmt) /\ ~NoTableOffence(stmt)) =>
        LET o == NumericOutcome(stmt.OffsetExpr)
            l == NumericOutcome(stmt.LimitExpr)
        IN  /\ o = "not a number" =>
                  sres.s = <<>> /\ sres.err = Err("offset", Eval(stmt.OffsetExpr).type)
            /\ (l = "not a number" /\ o \in {"absent", "ok"}) =>
                  sres.s = <<>> /\ sres.err = Err("limit", Eval(stmt.LimitExpr).type)
            /\ (o \in {"absent", "ok"} /\ l \in {"absent", "ok"}) =>
                  /\ sres.err = NoErr
                  /\ OpArgs(sres.s, "Skip") =
                        (IF o = "ok" THEN {CastAsInteger(Eval(stmt.OffsetExpr)).v} ELSE {})
                  /\ OpArgs(sres.s, "Take") =
                        (IF l = "ok" THEN {CastAsInteger(Eval(stmt.LimitExpr)).v} ELSE {})

C8_Witness ==
    /\ sres.done /\ ~GroupByInvalid(stmt) /\ ~NoTableOffence(stmt)
    /\ NumericOutcome(stmt.OffsetExpr) = "not a number"
    /\ NumericOutcome(stmt.LimitExpr) = "not a number"
    /\ sres.s = <<>> /\ sres.err = Err("offset", "text")

\* C9: without a table name, and with no GROUP BY validation error before it,
\* ToStream returns "no tables specified" and no stream iff some projection holds a
\* path or a wildcard at any depth; with a table name the check is never applied.
C9_NoTablesSpecified ==
    sres.done =>
        /\ (stmt.TableName = "" /\ ~GroupByInvalid(stmt)) =>
              ((sres.err = Err("no tables specified", NoArg) /\ sres.s = <<>>)
                  <=> NoTableOffence(stmt))
        /\ stmt.TableName # "" => sres.err.kind # "no tables specified"

C9_Witness ==
    /\ sres.done /\ stmt.TableName = "" /\ stmt.GroupByExpr = Nil
    /\ stmt.ProjectionExprs = <<Named(One), Named(OnePlusA)>>
    /\ sres.err = Err("no tables specified", NoArg) /\ sres.s = <<>>

(***************************************************************************)
(*                      THE INSERT ... VALUES PARSER                       *)
(***************************************************************************)
MaxFields == 2
MaxArity  == 3
MaxTuples == 2

\* What follows VALUES, item by item (the items are separated by commas): a
\* parenthesized expression list, a document literal, a parameter, or text that
\* is none of them.
ExprOf(j) == Lit("integer", j, TRUE)
TupleItem(n) == [form |-> "tuple", list |-> [j \in 1..n |-> ExprOf(j)]]
DocItem   == [form |-> "doc", list |-> <<>>]
ParamItem == [form |-> "param", list |-> <<>>]
BadItem   == [form |-> "bad", list |-> <<>>]
Items == { TupleItem(n) : n \in 0..MaxArity } \cup { DocItem, ParamItem, BadItem }

FieldNames == <<"a", "b", "c", "d", "e">>
FieldLists == { SubSeq(FieldNames, 1, n) : n \in 0..MaxFields }

ParseError(what) == [kind |-> "parse", n |-> 0, m |-> 0, what |-> what]
ArityError(n, m) == [kind |-> "values for fields", n |-> n, m |-> m, what |-> ""]
NoError == [kind |-> "none", n |-> 0, m |-> 0, what |-> ""]

KVPairs(pairs) == [kind |-> "kvpairs", Pairs |-> pairs]

\* Parser.parseExprList(LPAREN, RPAREN): the expressions of a parenthesized list.
parseExprList(item) ==
    IF item.form = "tuple" THEN [list |-> item.list, err |-> NoError]
    ELSE [list |-> <<>>, err |-> ParseError("(")]

parseExprListWithFieldsLoose(fields, item) ==
    LET r == parseExprList(item)
    IN  IF r.err # NoError THEN [doc |-> Nil, err |-> r.err]
        ELSE IF Len(fields) < Len(r.list)
        THEN [doc |-> Nil, err |-> ArityError(Len(r.list), Len(fields))]
        ELSE [doc |-> KVPairs([i \in 1..Len(r.list) |-> [K |-> fields[i], V |-> r.list[i]]]),
              err |-> NoError]

parseExprListWithFields(fields, item) ==
    LET r == parseExprList(item)
    IN  IF r.err # NoError THEN [doc |-> Nil, err |-> r.err]
        ELSE IF Len(fields) # Len(r.list)
        THEN [doc |-> Nil, err |-> ArityError(Len(r.list), Len(fields))]
        ELSE [doc |-> KVPairs([i \in 1..Len(r.list) |-> [K |-> fields[i], V |-> r.list[i]]]),
              err |-> NoError]

RECURSIVE parseDocumentsLoop(_, _, _)
\* The first (required) value list, then one more after each comma; the first
\* error ends the parse with no documents.
parseDocumentsLoop(fields, items, docs) ==
    IF items = <<>> THEN [docs |-> docs, err |-> NoError]
    ELSE LET r == parseExprListWithFields(fields, Head(items))
         IN  IF r.err # NoError THEN [docs |-> <<>>, err |-> r.err]
             ELSE parseDocumentsLoop(fields, Tail(items), Append(docs, r.doc))

parseDocumentsWithFields(fields, items) == parseDocumentsLoop(fields, items, <<>>)

\* Parser.parseParamOrDocument: a parameter, or else a document.
parseParamOrDocument(item) ==
    IF item.form = "param" THEN [doc |-> Param, err |-> NoError]
    ELSE IF item.form = "doc" THEN [doc |-> KVPairs(<<>>), err |-> NoError]
    ELSE [doc |-> Nil, err |-> ParseError("document")]

RECURSIVE parseLiteralDocLoop(_, _)
parseLiteralDocLoop(items, docs) ==
    IF items = <<>> THEN [docs |-> docs, err |-> NoError]
    ELSE LET r == parseParamOrDocument(Head(items))
         IN  IF r.err # NoError THEN [docs |-> <<>>, err |-> r.err]
             ELSE parseLiteralDocLoop(Tail(items), Append(docs, r.doc))

parseLiteralDocOrParamList(items) == parseLiteralDocLoop(items, <<>>)

parseValues(fields, items) ==
    IF Len(fields) > 0 THEN parseDocumentsWithFields(fields, items)
    ELSE parseLiteralDocOrParamList(items)

NoStmt == [ok |-> FALSE, Fields |-> <<>>, Values |-> <<>>, Select |-> FALSE,
           Returning |-> FALSE]

\* Parser.parseInsertStatement, from the field list on: [stmt, err].
parseInsertStatement(in) ==
    IF in.head # "ok" THEN [stmt |-> NoStmt, err |-> ParseError(in.head)]
    ELSE LET vals == IF in.tok = "VALUES" THEN parseValues(in.fields, in.items)
                     ELSE [docs |-> <<>>, err |-> NoError]
         IN  IF in.tok \notin {"VALUES", "SELECT"}
             THEN [stmt |-> NoStmt, err |-> ParseError("VALUES, SELECT")]
             ELSE IF in.tok = "VALUES" /\ vals.err # NoError
             THEN [stmt |-> NoStmt, err |-> vals.err]
             ELSE IF in.tok = "SELECT" /\ in.select = "err"
             THEN [stmt |-> NoStmt, err |-> ParseError("select")]
             ELSE IF in.returning = "err"
             THEN [stmt |-> NoStmt, err |-> ParseError("returning")]
             ELSE [stmt |-> [ok |-> TRUE, Fields |-> in.fields, Values |-> vals.docs,
                             Select |-> in.tok = "SELECT",
                             Returning |-> in.returning = "ok"],
                   err |-> NoError]

ItemLists == UNION { [1..n -> Items] : n \in 1..MaxTuples }

InsertInput(head, fields, tok, items, select, returning) ==
    [head |-> head, fields |-> fields, tok |-> tok, items |-> items,
     select |-> select, returning |-> returning]

InsertInputs ==
    { InsertInput(h, <<>>, "other", <<BadItem>>, "ok", "none") :
          h \in {"INTO", "table_name", "field list"} }
    \cup { InsertInput("ok", f, "other", <<BadItem>>, "ok", "none") : f \in FieldLists }
    \cup { InsertInput("ok", f, "SELECT", <<BadItem>>, x, r) :
              f \in FieldLists, x \in {"ok", "err"}, r \in {"none", "ok", "err"} }
    \cup { InsertInput("ok", f, "VALUES", it, "ok", r) :
              f \in FieldLists, it \in ItemLists, r \in {"none", "ok", "err"} }

InsertPending == [done |-> FALSE, stmt |-> NoStmt, err |-> NoError]

InsertInit == iin \in InsertInputs /\ ires = InsertPending

ParseInsert ==
    /\ ~ires.done
    /\ ires' = [done |-> TRUE, stmt |-> parseInsertStatement(iin).stmt,
                err |-> parseInsertStatement(iin).err]
    /\ UNCHANGED <<iin, codecVars, selectVars, execVars>>

InsertNext == ParseInsert

InitInsert == InsertInit /\ CodecIdle /\ SelectIdle /\ ExecIdle

SpecInsert == InitInsert /\ [][InsertNext]_vars

\* The tuples of a VALUES clause up to the first item that cannot be paired with
\* the fields: everything before it is a parenthesized list of matching arity.
Matches(fields, item) == item.form = "tuple" /\ Len(item.list) = Len(fields)
FirstOffender(fields, items) ==
    LET bad == { i \in 1..Len(items) : ~Matches(fields, items[i]) }
    IN  IF bad = {} THEN 0 ELSE Min(bad)

WithFieldsAndValues == ires.done /\ iin.head = "ok" /\ iin.fields # <<>> /\ iin.tok = "VALUES"

\* C7: with a non-empty field list and a VALUES clause, every parenthesized tuple
\* must hold as many expressions as there are fields: on the first tuple whose
\* count differs parsing fails with "N values for M fields" (N the tuple's count,
\* M the field count) and no statement is returned; when all tuples match, the
\* i-th expression of each tuple is paired with the i-th field name.
C7_ValuesArity ==
    WithFieldsAndValues =>
        LET k == FirstOffender(iin.fields, iin.items)
        IN  /\ (k > 0 /\ iin.items[k].form = "tuple") =>
                  /\ ires.err = ArityError(Len(iin.items[k].list), Len(iin.fields))
                  /\ ires.stmt = NoStmt
            /\ (k = 0 /\ iin.returning # "err") =>
                  /\ ires.err = NoError /\ ires.stmt.ok
                  /\ Len(ires.stmt.Values) = Len(iin.items)
                  /\ \A t \in 1..Len(iin.items) :
                        /\ Len(ires.stmt.Values[t].Pairs) = Len(iin.fields)
                        /\ \A i \in 1..Len(iin.fields) :
                              ires.stmt.Values[t].Pairs[i] =
                                  [K |-> iin.fields[i], V |-> iin.items[t].list[i]]

C7_Witness ==
    /\ WithFieldsAndValues
    /\ iin.fields = <<"a", "b">>
    /\ iin.items = <<TupleItem(2), TupleItem(1)>>
    /\ ires.err = ArityError(1, 2) /\ ires.stmt = NoStmt

(***************************************************************************)
(*                             dbutil.ExecSQL                              *)
(***************************************************************************)
MaxStmts == 2
MaxDocs  == 2

CtxErr == "context canceled"

\* The statement now run, counted from 1.
Current == Len(rets) + 1

\* What is remembered of a statement once its callback has returned.
Outcome(r, hadResult, closes, closeRes) ==
    [ret |-> r, hadResult |-> hadResult, closes |-> closes, closeRes |-> closeRes,
     iterErr |-> iterErr, cancelAt |-> cancelAt, ndocs |-> ndocs]

\* Parser.Parse(fn) once fn has returned r for a statement: an error ends the
\* parse and is what ExecSQL returns, nil lets it go on to the next statement.
CallbackReturns(r, hadResult, closes, closeRes) ==
    /\ rets' = Append(rets, Outcome(r, hadResult, closes, closeRes))
    /\ closeCount' = closes
    /\ IF r # None
       THEN epc' = "returned" /\ ret' = r /\ stmts' = stmts
       ELSE epc' = "parse" /\ ret' = ret /\ stmts' = stmts - 1

ExecInit ==
    /\ ctxDone = FALSE /\ stmts \in 1..MaxStmts /\ epc = "parse" /\ ndocs = 0 /\ pos = 0
    /\ written = <<>> /\ closeCount = 0 /\ iterErr = None /\ cancelAt = 0
    /\ ret = None /\ rets = <<>>

\* The context is cancelled, at any moment before ExecSQL returns.
Cancel ==
    /\ ~ctxDone /\ epc # "returned"
    /\ ctxDone' = TRUE
    /\ UNCHANGED <<stmts, epc, ndocs, pos, written, closeCount, iterErr, cancelAt, ret, rets,
                   codecVars, selectVars, insertVars>>

\* The parser reads the next statement and calls the callback with it, or fails
\* to parse it, or reaches the end of the input.
ParseStatement ==
    /\ epc = "parse"
    /\ \/ /\ stmts > 0
          /\ epc' = "prepare" /\ ret' = ret
          /\ ndocs' = 0 /\ pos' = 0 /\ closeCount' = 0 /\ iterErr' = None /\ cancelAt' = 0
       \/ /\ stmts > 0
          /\ epc' = "returned" /\ ret' = "parse error"
          /\ UNCHANGED <<ndocs, pos, closeCount, iterErr, cancelAt>>
       \/ /\ stmts = 0
          /\ epc' = "returned" /\ ret' = None
          /\ UNCHANGED <<ndocs, pos, closeCount, iterErr, cancelAt>>
    /\ UNCHANGED <<ctxDone, stmts, written, rets, codecVars, selectVars, insertVars>>

\* err := qq.Prepare(&qctx); if err != nil { return err }
Prepare ==
    /\ epc = "prepare"
    /\ \/ epc' = "run" /\ UNCHANGED <<stmts, closeCount, ret, rets>>
       \/ CallbackReturns("prepare error", FALSE, 0, None)
    /\ UNCHANGED <<ctxDone, ndocs, pos, written, iterErr, cancelAt,
                   codecVars, selectVars, insertVars>>

\* res, err := qq.Run(&qctx); if err != nil { return err }
Run ==
    /\ epc = "run"
    /\ \/ /\ \E n \in 0..MaxDocs : ndocs' = n
          /\ epc' = "iterate" /\ UNCHANGED <<stmts, closeCount, ret, rets>>
       \/ /\ CallbackReturns("run error", FALSE, 0, None)
          /\ ndocs' = ndocs
    /\ UNCHANGED <<ctxDone, pos, written, iterErr, cancelAt, codecVars, selectVars, insertVars>>

\* Result.Iterate: the next document goes to the callback, or the pipeline fails,
\* or the documents are exhausted and Iterate returns nil.
IterateNext ==
    /\ epc = "iterate"
    /\ \/ /\ pos < ndocs
          /\ pos' = pos + 1 /\ epc' = "check" /\ iterErr' = iterErr
       \/ /\ pos < ndocs
          /\ pos' = pos /\ epc' = "iterdone" /\ iterErr' = "pipeline error"
       \/ /\ pos = ndocs
          /\ pos' = pos /\ epc' = "iterdone" /\ iterErr' = None
    /\ UNCHANGED <<ctxDone, stmts, ndocs, written, closeCount, cancelAt, ret, rets,
                   codecVars, selectVars, insertVars>>

CallbackSelectIgnoresCtx(done) == "default"

\* select { case <-ctx.Done(): return ctx.Err(); default: }
CallbackSelect(done) == IF done THEN "return ctx.Err()" ELSE "default"

\* The callback is entered with document pos and looks at the context; the error
\* it returns ends Iterate, which returns it.  cancelAt remembers the first
\* document for which the callback was entered with the context cancelled.
CallbackCheck ==
    /\ epc = "check"
    /\ cancelAt' = IF ctxDone /\ cancelAt = 0 THEN pos ELSE cancelAt
    /\ IF CallbackSelect(ctxDone) = "default"
       THEN epc' = "encode" /\ iterErr' = iterErr
       ELSE epc' = "iterdone" /\ iterErr' = CtxErr
    /\ UNCHANGED <<ctxDone, stmts, ndocs, pos, written, closeCount, ret, rets,
                   codecVars, selectVars, insertVars>>

\* return enc.Encode(d): the document is written, or the writer fails.
CallbackEncode ==
    /\ epc = "encode"
    /\ \/ /\ written' = Append(written, <<Current, pos>>)
          /\ epc' = "iterate" /\ iterErr' = iterErr
       \/ /\ written' = written
          /\ epc' = "iterdone" /\ iterErr' = "write error"
    /\ UNCHANGED <<ctxDone, stmts, ndocs, pos, closeCount, cancelAt, ret, rets,
                   codecVars, selectVars, insertVars>>

AfterIterateReturn(err, closeRes) == IF err # None THEN err ELSE closeRes

\* if err != nil { res.Close(); return err }; return res.Close()
AfterIterate ==
    /\ epc = "iterdone"
    /\ \E closeRes \in {None, "close error"} :
          CallbackReturns(AfterIterateReturn(iterErr, closeRes), TRUE, closeCount + 1, closeRes)
    /\ UNCHANGED <<ctxDone, ndocs, pos, written, iterErr, cancelAt,
                   codecVars, selectVars, insertVars>>

ExecNext ==
    \/ Cancel \/ ParseStatement \/ Prepare \/ Run
    \/ IterateNext \/ CallbackCheck \/ CallbackEncode \/ AfterIterate

InitExec == ExecInit /\ CodecIdle /\ SelectIdle /\ InsertIdle

SpecExec == InitExec /\ [][ExecNext]_vars

\* The documents of statement k the writer holds, in the order written.
WrittenOf(k) == SelectSeq(written, LAMBDA w : w[1] = k)

\* C10: the context is looked at before each document is written: once the
\* callback is entered with the context cancelled, that document and every later
\* one of the statement are not encoded, iteration aborts with the context's
\* error, the Result is closed exactly once and the callback returns the context's
\* error, not Close's result; when iteration finishes without error the Result is
\* also closed exactly once and Close's result is returned.
C10_CancelAndClose ==
    /\ closeCount <= 1
    /\ (cancelAt > 0 /\ epc # "check") =>
          /\ WrittenOf(Current - (IF epc = "returned" THEN 1 ELSE 0)) =
                [i \in 1..(cancelAt - 1) |-> <<Current - (IF epc = "returned" THEN 1 ELSE 0), i>>]
          /\ iterErr = CtxErr
          /\ epc \in {"iterdone", "returned"}
    /\ \A k \in 1..Len(rets) :
          /\ rets[k].hadResult => rets[k].closes = 1
          /\ rets[k].cancelAt > 0 => rets[k].ret = CtxErr
          /\ (rets[k].hadResult /\ rets[k].iterErr = None) =>
                /\ rets[k].ret = rets[k].closeRes
                /\ WrittenOf(k) = [i \in 1..rets[k].ndocs |-> <<k, i>>]

C10_Witness ==
    /\ epc = "returned" /\ ret = CtxErr
    /\ Len(rets) = 2 /\ rets[1].iterErr = None /\ rets[1].ret = None
    /\ rets[2].cancelAt = 2 /\ rets[2].closeRes = "close error" /\ rets[2].closes = 1
    /\ written = <<<<1, 1>>, <<2, 1>>>>

====
